---- MODULE Spec2Model ----
(***************************************************************************)
(* Add-funds flow of the billing portal.                                   *)
(*                                                                         *)
(*   CustomerPortal (src/unnamed/part_000)        the orchestrator         *)
(*   CustomerPortalPage (customers/[slug]/page.tsx)  page + redirect path  *)
(*   POST apply-credit, POST create-payment-intent (apply-credit/route.ts) *)
(*                                                                         *)
(* Strings the code inspects character by character (customer ids,         *)
(* currency codes, the amount field) are sequences of one-character        *)
(* strings.  A value that may be null/undefined is a set with at most one  *)
(* element.  JSON numbers are rationals num/den.                           *)
(***************************************************************************)
EXTENDS Integers, Sequences, FiniteSets, TLC

(* ------------------------------------------------------------------ *)
(* Bounds of the model                                                  *)
(* ------------------------------------------------------------------ *)
MaxIntents == 1
MaxCalls == 2
MaxLoads == 1
MaxRequests == 2

(* ------------------------------------------------------------------ *)
(* Values                                                               *)
(* ------------------------------------------------------------------ *)
Null == "<null>"

CusA == <<"c", "u", "s", "_", "A">>
CusB == <<"c", "u", "s", "_", "B">>
BadId == <<"A">>
Slugs == {CusA, CusB}

usd == <<"u", "s", "d">>
USD == <<"U", "S", "D">>
eur == <<"e", "u", "r">>

ToLowerChar(c) ==
  CASE c = "U" -> "u"
    [] c = "S" -> "s"
    [] c = "D" -> "d"
    [] c = "E" -> "e"
    [] c = "R" -> "r"
    [] OTHER -> c

ToLowerCase(s) == [i \in 1..Len(s) |-> ToLowerChar(s[i])]

StartsWith(s, p) == Len(s) >= Len(p) /\ SubSeq(s, 1, Len(p)) = p

(* JSON values as the route handlers see them after request.json() *)
Undefined == [type |-> "undefined"]
JsonNull == [type |-> "null"]
Num(n) == [type |-> "number", num |-> n, den |-> 1]
Frac(n, d) == [type |-> "number", num |-> n, den |-> d]
Str(s) == [type |-> "string", s |-> s]

IsNumber(v) == v.type = "number"
IsInteger(v) == IsNumber(v) /\ v.num % v.den = 0
NumLess(v, k) == v.num < k * v.den
NumGreater(v, k) == v.num > k * v.den
IntValue(v) == v.num \div v.den

(* customerId is falsy when missing, null or the empty string *)
Truthy(v) == v.type = "string" /\ Len(v.s) > 0

(* ------------------------------------------------------------------ *)
(* POST /api/add-funds/apply-credit                                     *)
(* ------------------------------------------------------------------ *)
MIN_CENTS_APPLY == 1
MAX_CENTS == 99999999
MIN_CENTS_CREATE == 50

CusPrefix == <<"c", "u", "s", "_">>

(* a request whose body request.json() cannot parse *)
InvalidJson == [type |-> "invalid"]

MsgInvalidJson == "Invalid JSON body"
MsgCustomerId == "Valid customerId (cus_...) is required"
MsgAmountApply == "Amount must be an integer in cents between 1 and 99999999"
MsgAmountCreate == "Amount must be an integer in cents between 50 and 99999999"
MsgCurrency == "Valid 3-letter currency code is required"
MsgApplyFailed == "Failed to apply credit"
MsgCreateFailed == "Failed to create payment intent"

ValidCustomerId(v) == Truthy(v) /\ StartsWith(v.s, CusPrefix)

AmountInRange_NoUpper(v, lo, hi) ==
  /\ IsNumber(v)
  /\ IsInteger(v)
  /\ ~NumLess(v, lo)

AmountInRange(v, lo, hi) ==
  /\ IsNumber(v)
  /\ IsInteger(v)
  /\ ~NumLess(v, lo)
  /\ ~NumGreater(v, hi)

(* const { customerId, amount, currency = "usd" } = body *)
CurrencyOrDefault(v) == IF v.type = "undefined" THEN Str(usd) ELSE v

ValidCurrency(v) == v.type = "string" /\ Len(v.s) = 3

(* Validation part of apply-credit: the 400 response, or {} when the
   request passes all three checks. *)
ApplyCreditReject(body) ==
  IF body = InvalidJson
    THEN {[status |-> 400, error |-> MsgInvalidJson]}
  ELSE IF ~ValidCustomerId(body.customerId)
    THEN {[status |-> 400, error |-> MsgCustomerId]}
  ELSE IF ~AmountInRange(body.amount, MIN_CENTS_APPLY, MAX_CENTS)
    THEN {[status |-> 400, error |-> MsgAmountApply]}
  ELSE IF ~ValidCurrency(CurrencyOrDefault(body.currency))
    THEN {[status |-> 400, error |-> MsgCurrency]}
  ELSE {}

BalanceTransaction_NotNegated(body) ==
  [customer |-> body.customerId.s,
   amount |-> IntValue(body.amount),
   currency |-> ToLowerCase(CurrencyOrDefault(body.currency).s)]

(* The balance transaction apply-credit asks the gateway to record *)
BalanceTransaction(body) ==
  [customer |-> body.customerId.s,
   amount |-> 0 - IntValue(body.amount),
   currency |-> ToLowerCase(CurrencyOrDefault(body.currency).s)]

(* Whole handler: response and the gateway calls issued.  gwOk is the
   outcome of stripe.customers.createBalanceTransaction. *)
ApplyCreditPOST(body, gwOk) ==
  IF ApplyCreditReject(body) # {}
    THEN [resp |-> CHOOSE r \in ApplyCreditReject(body) : TRUE,
          issued |-> <<>>, recorded |-> <<>>]
  ELSE IF gwOk
    THEN [resp |-> [status |-> 200, error |-> Null],
          issued |-> <<BalanceTransaction(body)>>,
          recorded |-> <<BalanceTransaction(body)>>]
  ELSE [resp |-> [status |-> 500, error |-> MsgApplyFailed],
        issued |-> <<BalanceTransaction(body)>>,
        recorded |-> <<>>]

(* ------------------------------------------------------------------ *)
(* POST /api/add-funds/create-payment-intent                            *)
(* ------------------------------------------------------------------ *)
CreateIntentReject(body) ==
  IF body = InvalidJson
    THEN {[status |-> 400, error |-> MsgInvalidJson]}
  ELSE IF ~ValidCustomerId(body.customerId)
    THEN {[status |-> 400, error |-> MsgCustomerId]}
  ELSE IF ~AmountInRange(body.amount, MIN_CENTS_CREATE, MAX_CENTS)
    THEN {[status |-> 400, error |-> MsgAmountCreate]}
  ELSE {}

(* currency: typeof currency === "string" ? currency.toLowerCase() : "usd" *)
IntentCurrency(v) ==
  IF CurrencyOrDefault(v).type = "string"
    THEN ToLowerCase(CurrencyOrDefault(v).s)
    ELSE usd

NewIntent(body) ==
  [customer |-> body.customerId.s,
   amount |-> IntValue(body.amount),
   currency |-> IntentCurrency(body.currency),
   status |-> "requires_payment_method",
   received |-> {}]

(* ------------------------------------------------------------------ *)
(* Amount field: Math.round(parseFloat(amountDollars) * 100)            *)
(* ------------------------------------------------------------------ *)
Digits == {"0", "1", "2", "3", "4", "5", "6", "7", "8", "9"}

DigitVal(c) ==
  CASE c = "0" -> 0 [] c = "1" -> 1 [] c = "2" -> 2 [] c = "3" -> 3
    [] c = "4" -> 4 [] c = "5" -> 5 [] c = "6" -> 6 [] c = "7" -> 7
    [] c = "8" -> 8 [] c = "9" -> 9

(* number of leading digits of s from position i on *)
RECURSIVE DigitRun(_, _)
DigitRun(s, i) ==
  IF i <= Len(s) /\ s[i] \in Digits THEN 1 + DigitRun(s, i + 1) ELSE 0

RECURSIVE DigitsValue(_)
DigitsValue(d) ==
  IF d = <<>> THEN 0
  ELSE 10 * DigitsValue(SubSeq(d, 1, Len(d) - 1)) + DigitVal(d[Len(d)])

(* parseFloat reads the longest prefix digits [. digits]; it is NaN when
   that prefix holds no digit.  The result is kept as
   [nan, int, frac] with frac the sequence of fractional digits. *)
parseFloat(s) ==
  LET n == DigitRun(s, 1)
      hasDot == n + 1 <= Len(s) /\ s[n + 1] = "."
      m == IF hasDot THEN DigitRun(s, n + 2) ELSE 0
  IN [nan |-> (n = 0 /\ m = 0),
      int |-> DigitsValue(SubSeq(s, 1, n)),
      frac |-> IF hasDot THEN SubSeq(s, n + 2, n + 1 + m) ELSE <<>>]

FracDigit(f, i) == IF i <= Len(f) THEN DigitVal(f[i]) ELSE 0

(* Math.round(x * 100): hundredths, rounding half up on the third
   fractional digit *)
RoundCents(x) ==
  x.int * 100 + FracDigit(x.frac, 1) * 10 + FracDigit(x.frac, 2)
    + (IF FracDigit(x.frac, 3) >= 5 THEN 1 ELSE 0)

(* amount as a JS number: NaN is not finite *)
AmountCents(s) ==
  LET x == parseFloat(s)
  IN [finite |-> ~x.nan, v |-> IF x.nan THEN 0 ELSE RoundCents(x)]

(* JSON.stringify of a JS number: NaN becomes null *)
JsonOfNumber(a) == IF a.finite THEN Num(a.v) ELSE JsonNull

MsgMinAmount == "Enter at least $0.50"
MsgCreateFallback == "Failed to create payment"
MsgValidationFailed == "Validation failed"
MsgPaymentFailed == "Payment failed"
MsgPartialFailure == "Payment succeeded but failed to add credit. Contact support."
MsgRedirectApply == "Failed to apply credit"
MsgLoadCustomer == "Failed to load customer"

(* messages the gateway's client library puts into its error objects *)
MsgIncomplete == "Your card number is incomplete."
MsgDeclined == "Your card was declined."

MessageOr_Dropped(message, fallback) == message

(* error.message ?? fallback; an error object without a message has Null *)
MessageOr(message, fallback) == IF message # Null THEN message ELSE fallback

BelowMinimum_FiniteOnly(amount) == ~amount.finite

(* !Number.isFinite(amount) || amount < 50 *)
BelowMinimum(amount) == ~amount.finite \/ amount.v < 50

(* what the user can type into the amount field *)
AmountInputs ==
  { <<>>,
    <<"0", ".", "3", "0">>,
    <<"0", ".", "5", "0">>,
    <<"2">> }

CreatePaymentIntentPOST_FailureAs400(body, gw, id) ==
  IF CreateIntentReject(body) # {}
    THEN [resp |-> CHOOSE r \in CreateIntentReject(body) : TRUE,
          clientSecret |-> {}, created |-> <<>>]
  ELSE IF gw = "fail"
    THEN [resp |-> [status |-> 400, error |-> MsgCreateFailed],
          clientSecret |-> {}, created |-> <<>>]
  ELSE IF gw = "nosecret"
    THEN [resp |-> [status |-> 500, error |-> MsgCreateFailed],
          clientSecret |-> {}, created |-> <<NewIntent(body)>>]
  ELSE [resp |-> [status |-> 200, error |-> Null],
        clientSecret |-> {id}, created |-> <<NewIntent(body)>>]

(* Response and gateway effect of create-payment-intent.  gw is the
   outcome of stripe.paymentIntents.create: "ok", "nosecret" (an intent
   without client_secret) or "fail" (the call throws).  id is the secret
   the gateway would issue. *)
CreatePaymentIntentPOST(body, gw, id) ==
  IF CreateIntentReject(body) # {}
    THEN [resp |-> CHOOSE r \in CreateIntentReject(body) : TRUE,
          clientSecret |-> {}, created |-> <<>>]
  ELSE IF gw = "fail"
    THEN [resp |-> [status |-> 500, error |-> MsgCreateFailed],
          clientSecret |-> {}, created |-> <<>>]
  ELSE IF gw = "nosecret"
    THEN [resp |-> [status |-> 500, error |-> MsgCreateFailed],
          clientSecret |-> {}, created |-> <<NewIntent(body)>>]
  ELSE [resp |-> [status |-> 200, error |-> Null],
        clientSecret |-> {id}, created |-> <<NewIntent(body)>>]

(* ------------------------------------------------------------------ *)
(* Ledger gateway: customers                                            *)
(* ------------------------------------------------------------------ *)
CustomerCurrency(c) == IF c = CusA THEN usd ELSE eur

RECURSIVE Balance(_, _)
Balance(l, c) ==
  IF l = <<>> THEN 0
  ELSE Balance(Tail(l), c) + (IF Head(l).customer = c THEN Head(l).amount ELSE 0)

MsgFetchFailed == "Failed to fetch customer"
MsgNotFound == "Customer not found"

(* GET /api/customer: gw is "ok", "deleted" or "fail" *)
CustomerGET(customerId, l, gw) ==
  IF ~ValidCustomerId(Str(customerId))
    THEN [status |-> 400, error |-> MsgCustomerId, data |-> {}]
  ELSE IF gw = "fail"
    THEN [status |-> 500, error |-> MsgFetchFailed, data |-> {}]
  ELSE IF gw = "deleted"
    THEN [status |-> 404, error |-> MsgNotFound, data |-> {}]
  ELSE [status |-> 200, error |-> Null,
        data |-> {[id |-> customerId,
                   balance |-> Balance(l, customerId),
                   currency |-> CustomerCurrency(customerId)]}]

(* ------------------------------------------------------------------ *)
(* State                                                                *)
(* ------------------------------------------------------------------ *)
VARIABLES
  intents,        \* gateway: payment intents, the secret of one is its index
  ledger,         \* gateway: balance transactions recorded
  calls,          \* history of apply-credit requests from the browser
  apiReq,         \* last request posted straight to a route handler
  apiResp,        \* and what the handler did with it
  apiCount,       \* number of such requests
  where,          \* "page" or "external" (the authentication page)
  url,            \* window.location: [slug, secret]
  pendingReturn,  \* return_url the external page will come back to
  returnUrls,     \* return URLs the browser has been sent to
  loads,          \* page loads and effect re-runs so far
  loading, error, customer,   \* CustomerPortalPage state
  rpc, rSecret, rResp,        \* processPaymentRedirect in flight
  rIntent,                    \* paymentIntent it retrieved last
  fetches,                    \* fetchCustomer calls in flight
  amountDollars, clientSecret, payLoading, payError,  \* CustomerPortal state
  elementsRef,                \* elementsRef/stripeRef: secret they were made for
  ppc, hLive, hSecret, hAmountCents, hCurrency, hResp  \* handler in flight

serverVars == <<intents, ledger, calls>>
apiVars == <<apiReq, apiResp, apiCount>>
browserVars == <<where, url, pendingReturn, returnUrls, loads>>
pageVars == <<loading, error, customer, rpc, rSecret, rResp, rIntent, fetches>>
portalState == <<amountDollars, clientSecret, payLoading, payError, elementsRef>>
handlerVars == <<ppc, hLive, hSecret, hAmountCents, hCurrency, hResp>>
vars == <<serverVars, apiVars, browserVars, pageVars, portalState, handlerVars>>

NoResp == [status |-> 0, error |-> Null]
NoAmount == [finite |-> FALSE, v |-> 0]

(* the page renders <CustomerPortal> only in this case *)
Mounted(l, e, c) == ~l /\ e = Null /\ c # {}
PortalMounted == where = "page" /\ Mounted(loading, error, customer)

(* useState initial values of CustomerPortal *)
PortalFresh ==
  /\ amountDollars' = <<>>
  /\ clientSecret' = {}
  /\ payLoading' = FALSE
  /\ payError' = Null
  /\ elementsRef' = {}

HandlerIdle ==
  /\ ppc' = "idle"
  /\ hLive' = FALSE
  /\ hSecret' = {}
  /\ hAmountCents' = NoAmount
  /\ hCurrency' = usd
  /\ hResp' = NoResp

(* After the page state changed: when the portal leaves the tree its state
   is gone, and a handler still in flight runs on detached. *)
PortalFollowsPage ==
  IF Mounted(loading, error, customer) /\ ~Mounted(loading', error', customer')
    THEN /\ PortalFresh
         /\ hLive' = FALSE
         /\ UNCHANGED <<ppc, hSecret, hAmountCents, hCurrency, hResp>>
    ELSE UNCHANGED <<portalState, handlerVars>>

Init ==
  /\ intents = <<>>
  /\ ledger = <<>>
  /\ calls = <<>>
  /\ apiReq = [endpoint |-> "none"]
  /\ apiResp = [status |-> 0, error |-> Null, issued |-> <<>>, clientSecret |-> {}]
  /\ apiCount = 0
  /\ where = "page"
  /\ url = [slug |-> CusA, secret |-> {}]
  /\ pendingReturn = {}
  /\ returnUrls = {}
  /\ loads = 0
  /\ loading = TRUE
  /\ error = Null
  /\ customer = {}
  /\ rpc = "idle"
  /\ rSecret = {}
  /\ rResp = NoResp
  /\ rIntent = {}
  /\ fetches = 1
  /\ amountDollars = <<>>
  /\ clientSecret = {}
  /\ payLoading = FALSE
  /\ payError = Null
  /\ elementsRef = {}
  /\ ppc = "idle"
  /\ hLive = FALSE
  /\ hSecret = {}
  /\ hAmountCents = NoAmount
  /\ hCurrency = usd
  /\ hResp = NoResp

(* ------------------------------------------------------------------ *)
(* CustomerPortalPage                                                   *)
(* ------------------------------------------------------------------ *)
MsgNetwork == "Failed to fetch"
NetErr == [status |-> 0, error |-> MsgNetwork]
IsOk(r) == r.status >= 200 /\ r.status <= 299

(* data.error ?? fallback *)
ErrorOr(resp, fallback) == IF resp.error # Null THEN resp.error ELSE fallback

StrippedUrl_Kept(slug, secret) == [slug |-> slug, secret |-> secret]

(* window.history.replaceState({}, "", `/customers/${slug}`) *)
StrippedUrl(slug, secret) == [slug |-> slug, secret |-> {}]

(* fetchCustomer up to its await *)
FetchCustomerStart ==
  /\ loading' = TRUE
  /\ error' = Null

(* the effect of the page: the redirect path when the address carries a
   secret, the plain fetch otherwise.  inFlight and chain are the pending
   fetches and the pending redirect handler of the document. *)
Effect(slug, secret, inFlight, chain) ==
  IF secret # {}
    THEN /\ url' = StrippedUrl(slug, secret)
         /\ loading' = TRUE
         /\ error' = Null
         /\ rpc' = "loadStripe"
         /\ rSecret' = secret
         /\ rResp' = NoResp
         /\ fetches' = inFlight
    ELSE /\ url' = [slug |-> slug, secret |-> secret]
         /\ FetchCustomerStart
         /\ fetches' = inFlight + 1
         /\ rpc' = chain[1]
         /\ rSecret' = chain[2]
         /\ rResp' = chain[3]

(* a new document at address u: every piece of browser state starts over
   and the effect runs on mount *)
LoadPageFresh(u) ==
  /\ where' = "page"
  /\ customer' = {}
  /\ Effect(u.slug, u.secret, 0, <<"idle", {}, NoResp>>)
  /\ rIntent' = {}
  /\ PortalFresh
  /\ HandlerIdle

(* the external authentication page sends the browser back *)
ReturnFromRedirect ==
  /\ where = "external"
  /\ \E u \in pendingReturn :
       /\ LoadPageFresh(u)
       /\ returnUrls' = returnUrls \cup {u}
  /\ pendingReturn' = {}
  /\ UNCHANGED <<serverVars, apiVars, loads>>

(* a return URL is opened once more (back to the authentication page and
   forward again, a duplicated tab, a shared link) *)
Replay ==
  /\ loads < MaxLoads
  /\ \E u \in returnUrls : LoadPageFresh(u)
  /\ loads' = loads + 1
  /\ pendingReturn' = {}
  /\ UNCHANGED <<serverVars, apiVars, returnUrls>>

(* a return URL is opened with the customer reference of its path
   replaced by another one *)
OpenUrl ==
  /\ loads < MaxLoads
  /\ \E u \in returnUrls : \E slug \in Slugs \ {u.slug} :
       LoadPageFresh([slug |-> slug, secret |-> u.secret])
  /\ loads' = loads + 1
  /\ pendingReturn' = {}
  /\ UNCHANGED <<serverVars, apiVars, returnUrls>>

(* the address bar as it stands is loaded again *)
Reload ==
  /\ where = "page"
  /\ loads < MaxLoads
  /\ LoadPageFresh(url)
  /\ loads' = loads + 1
  /\ UNCHANGED <<serverVars, apiVars, pendingReturn, returnUrls>>

(* the portal of another customer is opened *)
Visit ==
  /\ loads < MaxLoads
  /\ \E slug \in Slugs \ {url.slug} : LoadPageFresh([slug |-> slug, secret |-> {}])
  /\ loads' = loads + 1
  /\ pendingReturn' = {}
  /\ UNCHANGED <<serverVars, apiVars, returnUrls>>

(* React runs the effect again in the mounted page *)
EffectRerun ==
  /\ where = "page"
  /\ ppc = "idle"
  /\ loads < MaxLoads
  /\ Effect(url.slug, url.secret, fetches, <<rpc, rSecret, rResp>>)
  /\ loads' = loads + 1
  /\ UNCHANGED <<customer, rIntent>>
  /\ PortalFollowsPage
  /\ UNCHANGED <<serverVars, apiVars, where, pendingReturn, returnUrls>>

(* fetchCustomer after its await: GET /api/customer answered *)
FetchDone ==
  /\ where = "page"
  /\ fetches > 0
  /\ \E gw \in {"ok", "deleted", "fail"} :
       LET r == CustomerGET(url.slug, ledger, gw)
       IN IF IsOk(r)
            THEN customer' = r.data /\ error' = error
            ELSE customer' = {} /\ error' = ErrorOr(r, MsgLoadCustomer)
  /\ loading' = FALSE
  /\ fetches' = fetches - 1
  /\ PortalFollowsPage
  /\ UNCHANGED <<serverVars, apiVars, browserVars, rpc, rSecret, rResp, rIntent>>

(* ------------------------------------------------------------------ *)
(* processPaymentRedirect and the promise chain behind it               *)
(* ------------------------------------------------------------------ *)
SecretOf(set) == CHOOSE i \in set : TRUE

ResolvedAmount_Requested(pi) == pi.amount

(* amount_received ?? amount *)
ResolvedAmount(pi) ==
  IF pi.received # {} THEN CHOOSE a \in pi.received : TRUE ELSE pi.amount

RedirectBody(slug, pi) ==
  [customerId |-> Str(slug),
   amount |-> Num(ResolvedAmount(pi)),
   currency |-> Str(pi.currency)]

RedirectCredits_AnyStatus(pi) == ~(ResolvedAmount(pi) < 1)

(* whether processPaymentRedirect goes on to post the credit *)
RedirectCredits(pi) == pi.status = "succeeded" /\ ~(ResolvedAmount(pi) < 1)

(* one fetch of apply-credit by the browser.  net = FALSE: the request
   does not reach the service and fetch rejects. *)
InvokeApplyCredit(path, intent, status, body, net, gwOk) ==
  LET r == IF net THEN ApplyCreditPOST(body, gwOk)
           ELSE [resp |-> NetErr, issued |-> <<>>, recorded |-> <<>>]
  IN /\ Len(calls) < MaxCalls
     /\ calls' = Append(calls, [path |-> path, intent |-> intent,
                                intentStatus |-> status, body |-> body,
                                resp |-> r.resp, issued |-> r.issued])
     /\ ledger' = ledger \o r.recorded

(* the ways one fetch of apply-credit can go: <<net, gwOk>> *)
FetchOutcomes == {<<TRUE, TRUE>>, <<TRUE, FALSE>>, <<FALSE, FALSE>>}

(* .then(() => fetchCustomer()) *)
ThenFetchCustomer ==
  /\ FetchCustomerStart
  /\ fetches' = fetches + 1
  /\ rpc' = "idle"
  /\ rSecret' = {}
  /\ rResp' = NoResp
  /\ UNCHANGED customer

CatchRedirect_NoFinally(msg) ==
  /\ error' = msg
  /\ customer' = {}
  /\ loading' = loading
  /\ rpc' = "idle"
  /\ rSecret' = {}
  /\ rResp' = NoResp
  /\ UNCHANGED fetches

(* .catch(...).finally(() => setLoading(false)) *)
CatchRedirect(msg) ==
  /\ error' = msg
  /\ customer' = {}
  /\ loading' = FALSE
  /\ rpc' = "idle"
  /\ rSecret' = {}
  /\ rResp' = NoResp
  /\ UNCHANGED fetches

(* await loadStripe(PUBLISHABLE_KEY) resolved *)
RLoadStripe ==
  /\ where = "page"
  /\ rpc = "loadStripe"
  /\ \E stripe \in BOOLEAN :
       IF stripe
         THEN /\ rpc' = "retrieve"
              /\ UNCHANGED <<loading, error, customer, rSecret, rResp, fetches>>
         ELSE ThenFetchCustomer
  /\ UNCHANGED rIntent
  /\ PortalFollowsPage
  /\ UNCHANGED <<serverVars, apiVars, browserVars>>

(* await stripe.retrievePaymentIntent(clientSecret) resolved; the checks
   and the fetch of apply-credit follow without another await *)
RRetrieve ==
  /\ where = "page"
  /\ rpc = "retrieve"
  /\ LET i == SecretOf(rSecret)
         pi == intents[i]
     IN \/ /\ CatchRedirect(MsgNetwork)
           /\ rIntent' = {}
           /\ UNCHANGED serverVars
        \/ /\ ThenFetchCustomer
           /\ rIntent' = {}
           /\ UNCHANGED serverVars
        \/ /\ ~RedirectCredits(pi)
           /\ ThenFetchCustomer
           /\ rIntent' = {pi}
           /\ UNCHANGED serverVars
        \/ /\ RedirectCredits(pi)
           /\ \E o \in FetchOutcomes :
                InvokeApplyCredit("redirect", i, pi.status,
                                  RedirectBody(url.slug, pi), o[1], o[2])
           /\ rpc' = "apply"
           /\ rResp' = calls'[Len(calls')].resp
           /\ rIntent' = {pi}
           /\ UNCHANGED <<intents, loading, error, customer, rSecret, fetches>>
  /\ PortalFollowsPage
  /\ UNCHANGED <<apiVars, browserVars>>

(* await fetch(apply-credit) settled *)
RApplyDone ==
  /\ where = "page"
  /\ rpc = "apply"
  /\ IF rResp = NetErr THEN CatchRedirect(MsgNetwork)
     ELSE IF ~IsOk(rResp) THEN CatchRedirect(MsgRedirectApply)
     ELSE ThenFetchCustomer
  /\ UNCHANGED rIntent
  /\ PortalFollowsPage
  /\ UNCHANGED <<serverVars, apiVars, browserVars>>

(* ------------------------------------------------------------------ *)
(* CustomerPortal                                                       *)
(* ------------------------------------------------------------------ *)
TheCustomer == CHOOSE c \in customer : TRUE

(* onChange of the amount input, rendered while there is no clientSecret *)
SetAmount ==
  /\ PortalMounted
  /\ clientSecret = {}
  /\ \E s \in AmountInputs \ {amountDollars} : amountDollars' = s
  /\ UNCHANGED <<clientSecret, payLoading, payError, elementsRef>>
  /\ UNCHANGED <<serverVars, apiVars, browserVars, pageVars, handlerVars>>

CreateBody(slug, amount, currency) ==
  [customerId |-> Str(slug), amount |-> JsonOfNumber(amount), currency |-> Str(currency)]

(* click on "Continue to payment": handleCreatePaymentIntent up to its
   await; the request reaches the service in the same step *)
HandleCreatePaymentIntent ==
  /\ PortalMounted
  /\ clientSecret = {}
  /\ ~payLoading
  /\ ppc = "idle"
  /\ LET amount == AmountCents(amountDollars)
     IN IF BelowMinimum(amount)
          THEN /\ payError' = MsgMinAmount
               /\ UNCHANGED <<amountDollars, clientSecret, payLoading, elementsRef>>
               /\ UNCHANGED <<handlerVars, intents>>
          ELSE /\ payError' = Null
               /\ payLoading' = TRUE
               /\ UNCHANGED <<amountDollars, clientSecret, elementsRef>>
               /\ ppc' = "creating"
               /\ hLive' = TRUE
               /\ hAmountCents' = amount
               /\ hCurrency' = TheCustomer.currency
               /\ \/ /\ Len(intents) < MaxIntents
                     /\ \E gw \in {"ok", "nosecret", "fail"} :
                          LET r == CreatePaymentIntentPOST(
                                     CreateBody(url.slug, amount, TheCustomer.currency),
                                     gw, Len(intents) + 1)
                          IN /\ intents' = intents \o r.created
                             /\ hResp' = r.resp
                             /\ hSecret' = r.clientSecret
                  \/ /\ hResp' = NetErr
                     /\ hSecret' = {}
                     /\ UNCHANGED intents
  /\ UNCHANGED <<ledger, calls, apiVars, browserVars, pageVars>>

(* handleCreatePaymentIntent after its await *)
CreateDone ==
  /\ where = "page"
  /\ ppc = "creating"
  /\ IF hLive
       THEN /\ IF hResp = NetErr
                 THEN payError' = MsgNetwork /\ UNCHANGED clientSecret
               ELSE IF ~IsOk(hResp)
                 THEN payError' = ErrorOr(hResp, MsgCreateFallback) /\ UNCHANGED clientSecret
               ELSE clientSecret' = hSecret /\ UNCHANGED payError
            /\ payLoading' = FALSE
            /\ UNCHANGED <<amountDollars, elementsRef>>
       ELSE UNCHANGED portalState
  /\ HandlerIdle
  /\ UNCHANGED <<serverVars, apiVars, browserVars, pageVars>>

(* the effect on [clientSecret]: loadStripe resolved, elements created *)
MountElements ==
  /\ PortalMounted
  /\ clientSecret # {}
  /\ elementsRef # clientSecret
  /\ elementsRef' = clientSecret
  /\ UNCHANGED <<amountDollars, clientSecret, payLoading, payError>>
  /\ UNCHANGED <<serverVars, apiVars, browserVars, pageVars, handlerVars>>

Cancel_WhileLoading ==
  /\ PortalMounted
  /\ clientSecret # {}
  /\ clientSecret' = {}
  /\ UNCHANGED <<amountDollars, payLoading, payError, elementsRef>>
  /\ UNCHANGED <<serverVars, apiVars, browserVars, pageVars, handlerVars>>

(* click on "Cancel": onClick={() => setClientSecret(null)} *)
Cancel ==
  /\ PortalMounted
  /\ clientSecret # {}
  /\ ~payLoading
  /\ clientSecret' = {}
  /\ UNCHANGED <<amountDollars, payLoading, payError, elementsRef>>
  /\ UNCHANGED <<serverVars, apiVars, browserVars, pageVars, handlerVars>>

HandleConfirmPayment_NoSubmit ==
  /\ PortalMounted
  /\ clientSecret # {}
  /\ ~payLoading
  /\ ppc = "idle"
  /\ elementsRef # {}
  /\ hAmountCents' = AmountCents(amountDollars)
  /\ hSecret' = clientSecret
  /\ hCurrency' = TheCustomer.currency
  /\ hResp' = NoResp
  /\ hLive' = TRUE
  /\ ppc' = "confirm"
  /\ payError' = Null
  /\ payLoading' = TRUE
  /\ UNCHANGED <<amountDollars, clientSecret, elementsRef>>
  /\ UNCHANGED <<serverVars, apiVars, browserVars, pageVars>>

(* submit of the form ("Pay"): handleConfirmPayment up to its first await *)
HandleConfirmPayment ==
  /\ PortalMounted
  /\ clientSecret # {}
  /\ ~payLoading
  /\ ppc = "idle"
  /\ elementsRef # {}
  /\ hAmountCents' = AmountCents(amountDollars)
  /\ hSecret' = clientSecret
  /\ hCurrency' = TheCustomer.currency
  /\ hResp' = NoResp
  /\ hLive' = TRUE
  /\ ppc' = "submit"
  /\ payError' = Null
  /\ payLoading' = TRUE
  /\ UNCHANGED <<amountDollars, clientSecret, elementsRef>>
  /\ UNCHANGED <<serverVars, apiVars, browserVars, pageVars>>

HandlerFails_ClearsSecret(msg) ==
  /\ IF hLive
       THEN /\ payError' = msg
            /\ payLoading' = FALSE
            /\ clientSecret' = {}
            /\ UNCHANGED <<amountDollars, elementsRef>>
       ELSE UNCHANGED portalState
  /\ HandlerIdle

(* a return of the handler that sets the error and clears the flag *)
HandlerFails(msg) ==
  /\ IF hLive
       THEN /\ payError' = msg
            /\ payLoading' = FALSE
            /\ UNCHANGED <<amountDollars, clientSecret, elementsRef>>
       ELSE UNCHANGED portalState
  /\ HandlerIdle

(* await elementsRef.current.submit() resolved *)
SubmitDone ==
  /\ where = "page"
  /\ ppc = "submit"
  /\ \/ \E message \in {Null, MsgIncomplete} :
          HandlerFails(MessageOr(message, MsgValidationFailed))
     \/ /\ ppc' = "confirm"
        /\ UNCHANGED <<portalState, hLive, hSecret, hAmountCents, hCurrency, hResp>>
  /\ UNCHANGED <<serverVars, apiVars, browserVars, pageVars>>

(* the gateway accepts a confirmation only for an intent still open *)
Confirmable(pi) == pi.status \in {"requires_payment_method", "requires_action"}

(* amount_received as the gateway may report it for an intent of amount a:
   absent, the amount, a capture that differs from it, nothing *)
ReceivedChoices(a) == {{}, {a}, {a - 1}, {0}}

(* body of the apply-credit request of handleConfirmPayment *)
SyncBody(slug, amountCents, currency) ==
  [customerId |-> Str(slug), amount |-> JsonOfNumber(amountCents), currency |-> Str(currency)]

(* the browser leaves for the external authentication page *)
LeaveForRedirect ==
  /\ where' = "external"
  /\ pendingReturn' = {[slug |-> url.slug, secret |-> hSecret]}
  /\ loading' = TRUE
  /\ error' = Null
  /\ customer' = {}
  /\ rpc' = "idle"
  /\ rSecret' = {}
  /\ rResp' = NoResp
  /\ rIntent' = {}
  /\ fetches' = 0
  /\ PortalFresh
  /\ HandlerIdle
  /\ UNCHANGED <<url, returnUrls, loads>>

(* await stripeRef.current.confirmPayment(...) settled.  The handler
   reads only { error } of the result; without an error it posts
   apply-credit before its next await. *)
ConfirmDone ==
  /\ where = "page"
  /\ ppc = "confirm"
  /\ LET i == SecretOf(hSecret)
         pi == intents[i]
     IN \/ /\ intents' = IF Confirmable(pi)
                           THEN [intents EXCEPT ![i].status = "requires_payment_method"]
                           ELSE intents
           /\ \E message \in {Null, MsgDeclined} :
                HandlerFails(MessageOr(message, MsgPaymentFailed))
           /\ UNCHANGED <<ledger, calls, browserVars, pageVars>>
        \/ /\ HandlerFails(MsgNetwork)
           /\ UNCHANGED <<serverVars, browserVars, pageVars>>
        \/ /\ Confirmable(pi)
           /\ \E st \in {"succeeded", "requires_action"} :
              \E rc \in (IF st = "succeeded" THEN ReceivedChoices(pi.amount) ELSE {{}}) :
                /\ intents' = [intents EXCEPT ![i].status = st, ![i].received = rc]
                /\ \E o \in FetchOutcomes :
                     InvokeApplyCredit("sync", i, st,
                                       SyncBody(url.slug, hAmountCents, hCurrency),
                                       o[1], o[2])
                /\ hResp' = calls'[Len(calls')].resp
           /\ ppc' = "apply"
           /\ UNCHANGED <<portalState, hLive, hSecret, hAmountCents, hCurrency>>
           /\ UNCHANGED <<browserVars, pageVars>>
        \/ /\ Confirmable(pi)
           /\ intents' = [intents EXCEPT ![i].status = "requires_action"]
           /\ LeaveForRedirect
           /\ UNCHANGED <<ledger, calls>>
  /\ UNCHANGED apiVars

(* await fetch(apply-credit) settled *)
ApplyDone ==
  /\ where = "page"
  /\ ppc = "apply"
  /\ IF hResp = NetErr
       THEN HandlerFails(MsgNetwork) /\ UNCHANGED pageVars
     ELSE IF ~IsOk(hResp)
       THEN HandlerFails(ErrorOr(hResp, MsgPartialFailure)) /\ UNCHANGED pageVars
     ELSE /\ FetchCustomerStart
          /\ fetches' = fetches + 1
          /\ UNCHANGED <<customer, rpc, rSecret, rResp, rIntent>>
          /\ PortalFresh
          /\ HandlerIdle
  /\ UNCHANGED <<serverVars, apiVars, browserVars>>

(* ------------------------------------------------------------------ *)
(* Ledger gateway: an intent waiting for authentication or processing   *)
(* is settled                                                           *)
(* ------------------------------------------------------------------ *)
GatewaySettle ==
  /\ \E i \in 1..Len(intents) :
       /\ intents[i].status = "requires_action"
       /\ \/ \E rc \in ReceivedChoices(intents[i].amount) :
               intents' = [intents EXCEPT ![i].status = "succeeded", ![i].received = rc]
          \/ intents' = [intents EXCEPT ![i].status = "canceled"]
  /\ UNCHANGED <<ledger, calls, apiVars, browserVars, pageVars, portalState, handlerVars>>

(* ------------------------------------------------------------------ *)
(* Requests posted straight to the route handlers                       *)
(* ------------------------------------------------------------------ *)
ApiCustomerIds == {Undefined, Str(BadId), Str(CusA)}

ApiAmounts ==
  {Undefined, JsonNull, Str(<<"5", "0">>), Frac(101, 2),
   Num(0 - 1), Num(0), Num(1), Num(49), Num(50),
   Num(MAX_CENTS), Num(MAX_CENTS + 1)}

ApiCurrencies == {Undefined, Str(usd), Str(USD), Str(<<"u", "s">>), Num(840)}

ApiBodies ==
  {InvalidJson} \cup
  [customerId : ApiCustomerIds, amount : ApiAmounts, currency : ApiCurrencies]

DirectApply ==
  /\ apiCount < MaxRequests
  /\ \E body \in ApiBodies, gwOk \in BOOLEAN :
       LET r == ApplyCreditPOST(body, gwOk)
       IN /\ apiReq' = [endpoint |-> "apply-credit", body |-> body, gwOk |-> gwOk]
          /\ apiResp' = [status |-> r.resp.status, error |-> r.resp.error,
                         issued |-> r.issued, clientSecret |-> {}]
          /\ ledger' = ledger \o r.recorded
  /\ apiCount' = apiCount + 1
  /\ UNCHANGED <<intents, calls, browserVars, pageVars, portalState, handlerVars>>

DirectCreate ==
  /\ apiCount < MaxRequests
  /\ \E body \in ApiBodies, gw \in {"ok", "nosecret", "fail"} :
       LET r == CreatePaymentIntentPOST(body, gw, Len(intents) + 1)
       IN /\ apiReq' = [endpoint |-> "create-payment-intent", body |-> body,
                        gwOk |-> (gw = "ok")]
          /\ apiResp' = [status |-> r.resp.status, error |-> r.resp.error,
                         issued |-> r.created, clientSecret |-> r.clientSecret]
          /\ intents' = intents \o r.created
  /\ apiCount' = apiCount + 1
  /\ UNCHANGED <<ledger, calls, browserVars, pageVars, portalState, handlerVars>>

NextApi ==
  \/ DirectApply
  \/ DirectCreate

SpecApi == Init /\ [][NextApi]_vars

Next ==
  \/ ReturnFromRedirect
  \/ Replay
  \/ OpenUrl
  \/ Reload
  \/ Visit
  \/ EffectRerun
  \/ FetchDone
  \/ RLoadStripe
  \/ RRetrieve
  \/ RApplyDone
  \/ SetAmount
  \/ HandleCreatePaymentIntent
  \/ CreateDone
  \/ MountElements
  \/ Cancel
  \/ HandleConfirmPayment
  \/ SubmitDone
  \/ ConfirmDone
  \/ ApplyDone
  \/ GatewaySettle

Spec == Init /\ [][Next]_vars

(* Every pending asynchronous call settles: the step behind each await and
   each promise callback is taken once it can be.  What the user and the
   gateway do on their own (clicks, page loads, the return from the
   authentication page, the settlement of an intent) is left free. *)
Settles ==
  /\ WF_vars(FetchDone)
  /\ WF_vars(RLoadStripe)
  /\ WF_vars(RRetrieve)
  /\ WF_vars(RApplyDone)
  /\ WF_vars(CreateDone)
  /\ WF_vars(SubmitDone)
  /\ WF_vars(ConfirmDone)
  /\ WF_vars(ApplyDone)

SpecLive == Init /\ [][Next]_vars /\ Settles

TypeOK ==
  /\ where \in {"page", "external"}
  /\ rpc \in {"idle", "loadStripe", "retrieve", "apply"}
  /\ ppc \in {"idle", "creating", "submit", "confirm", "apply"}
  /\ Len(calls) <= MaxCalls
  /\ loads <= MaxLoads
  /\ hLive => PortalMounted

(* ------------------------------------------------------------------ *)
(* Properties                                                           *)
(* ------------------------------------------------------------------ *)
(* the apply-credit requests that reached the service *)
Served == {k \in 1..Len(calls) : calls[k].resp.status # 0}

CallsFor(i) == {k \in Served : calls[k].intent = i}
Succeeded(i) == intents[i].status = "succeeded"

(* the apply-credit requests made for intent i once it had succeeded, and
   which the service answered ok after recording a balance transaction *)
CreditsFor(i) ==
  {k \in CallsFor(i) :
     calls[k].intentStatus = "succeeded" /\ IsOk(calls[k].resp)}

(* C1: a payment intent that reached succeeded is never credited a second
   time, whichever of handleConfirmPayment and processPaymentRedirect
   makes the apply-credit requests and whatever pages are loaded. *)
C1_CreditedOncePerIntent ==
  \A i \in 1..Len(intents) : Succeeded(i) => Cardinality(CreditsFor(i)) <= 1

(* C2: every apply-credit request of handleConfirmPayment or of
   processPaymentRedirect that the service received was made for an intent
   whose gateway status was succeeded when the request was made. *)
C2_CreditOnlySucceeded ==
  \A k \in Served : calls[k].intentStatus = "succeeded"

(* C5: the amount and currency handleConfirmPayment sends to apply-credit
   are the amount and currency of the intent it has just confirmed. *)
C5_SyncCreditMatchesIntent ==
  \A k \in Served :
    calls[k].path = "sync" =>
      /\ calls[k].body.amount = Num(intents[calls[k].intent].amount)
      /\ calls[k].body.currency = Str(intents[calls[k].intent].currency)

(* a synchronous confirmation succeeded and the apply-credit service
   answered request k with a failure *)
CreditFailedAfterConfirm(k) ==
  /\ calls[k].path = "sync"
  /\ calls[k].intentStatus = "succeeded"
  /\ calls[k].resp.status >= 400

(* C6: once apply-credit has failed after a successful synchronous
   confirmation, the orchestrator never again submits or confirms that
   intent and never makes another apply-credit request for it. *)
C6_PartialFailureIsTerminal ==
  \A k \in 1..Len(calls) :
    CreditFailedAfterConfirm(k) =>
      /\ ~(ppc \in {"submit", "confirm"} /\ hSecret = {calls[k].intent})
      /\ CallsFor(calls[k].intent) = {k}

(* C7: when the apply-credit service answers the request of
   handleConfirmPayment with a failure, the error the portal shows is the
   partial-failure message. *)
C7_PartialFailureMessage ==
  [][ (ppc = "apply" /\ hLive /\ hResp # NetErr /\ ~IsOk(hResp) /\ ppc' = "idle"
         /\ where' = "page" /\ loads' = loads)
        => payError' = MsgPartialFailure ]_vars

(* the amount of a request is a number below lo, above hi, or no integer *)
AmountOutside(v, lo, hi) ==
  \/ v.type # "number"
  \/ v.num % v.den # 0
  \/ v.num < lo * v.den
  \/ v.num > hi * v.den

ApiRequestMade == apiReq.endpoint # "none" /\ apiReq.body # InvalidJson

(* C3 as stated: both services answer 400 to every amount below 50, above
   99999999 or not an integer. *)
C3_BothRejectBelow50 ==
  (ApiRequestMade /\ AmountOutside(apiReq.body.amount, 50, 99999999))
    => apiResp.status = 400

(* C3: create-payment-intent answers 400 to every amount below 50, above
   99999999 or not an integer; apply-credit answers 400 to every amount
   below 1, above 99999999 or not an integer. *)
C3_RejectOutOfRange ==
  /\ (ApiRequestMade /\ apiReq.endpoint = "create-payment-intent"
        /\ AmountOutside(apiReq.body.amount, 50, 99999999))
       => apiResp.status = 400
  /\ (ApiRequestMade /\ apiReq.endpoint = "apply-credit"
        /\ AmountOutside(apiReq.body.amount, 1, 99999999))
       => apiResp.status = 400

C3_Witness ==
  /\ apiReq.endpoint = "apply-credit"
  /\ apiReq.body # InvalidJson
  /\ apiReq.body.customerId = Str(CusA)
  /\ apiReq.body.amount = Num(100000000)
  /\ apiReq.body.currency = Str(usd)
  /\ apiResp.status = 400
  /\ apiResp.error = MsgAmountApply
  /\ apiResp.issued = <<>>

(* a request with a customer id of the customer shape, an integer amount
   in [1, 99999999] and a currency string of three characters *)
ValidCreditRequest(b) ==
  /\ b # InvalidJson
  /\ b.customerId.type = "string"
  /\ Len(b.customerId.s) >= 4
  /\ SubSeq(b.customerId.s, 1, 4) = <<"c", "u", "s", "_">>
  /\ ~AmountOutside(b.amount, 1, 99999999)
  /\ b.currency.type = "string"
  /\ Len(b.currency.s) = 3

(* C4: a valid apply-credit request issues exactly one balance
   transaction, for the requested customer, of minus the requested amount,
   in the requested currency; when the gateway accepts it the answer is
   200 and the customer's balance has gone down by exactly the amount. *)
C4_ValidRequestCreditsOnce ==
  [][ (apiCount' = apiCount + 1 /\ apiReq'.endpoint = "apply-credit"
         /\ ValidCreditRequest(apiReq'.body))
        => LET b == apiReq'.body
               c == b.customerId.s
           IN /\ Len(apiResp'.issued) = 1
              /\ apiResp'.issued[1].customer = c
              /\ apiResp'.issued[1].amount = 0 - b.amount.num
              /\ ToLowerCase(apiResp'.issued[1].currency) = ToLowerCase(b.currency.s)
              /\ apiReq'.gwOk =>
                   /\ apiResp'.status = 200
                   /\ apiResp'.error = Null
                   /\ ledger' = Append(ledger, apiResp'.issued[1])
                   /\ Balance(ledger', c) = Balance(ledger, c) - b.amount.num
     ]_vars

C4_Witness ==
  /\ apiCount = 2
  /\ apiReq.endpoint = "apply-credit"
  /\ ValidCreditRequest(apiReq.body)
  /\ apiReq.body.amount = Num(49)
  /\ apiReq.body.currency = Str(USD)
  /\ apiReq.gwOk
  /\ apiResp.status = 200
  /\ Len(ledger) = 2
  /\ Balance(ledger, CusA) = 0 - 98

(* C8: while the redirect handler runs, and in every state of the page
   after it, the address of the page holds no confirmation secret: the
   effect has removed it in the step that starts the handler.  So a
   reload of the address starts no redirect handler, and a re-run of the
   effect leaves the handler where it was. *)
C8_SecretStripped ==
  /\ [](where = "page" => url.secret = {})
  /\ [][/\ Reload => rpc' = "idle" /\ rSecret' = {}
        /\ EffectRerun => rpc' = rpc /\ rSecret' = rSecret]_vars

C8_Witness ==
  /\ where = "page"
  /\ rpc = "retrieve"
  /\ rSecret # {}
  /\ url.secret = {}
  /\ loads = 1
  /\ fetches = 1

(* C9: when processPaymentRedirect has retrieved an intent that is not
   succeeded, or whose resolved amount is below 1, that step makes no
   apply-credit request, leaves the ledger alone, sets no error and goes on
   to fetch the customer. *)
C9_SilentAbort ==
  [][ (rpc = "retrieve" /\ rIntent = {} /\ rIntent' # {}
         /\ \E pi \in rIntent' :
              \/ pi.status # "succeeded"
              \/ \E a \in pi.received : a < 1
              \/ (pi.received = {} /\ pi.amount < 1))
        => /\ rpc' = "idle"
           /\ calls' = calls
           /\ ledger' = ledger
           /\ error' = Null
           /\ loading' = TRUE
           /\ fetches' = fetches + 1
     ]_vars

C9_Witness ==
  /\ rpc = "idle"
  /\ rIntent # {}
  /\ \E pi \in rIntent : pi.status = "canceled"
  /\ calls = <<>>
  /\ ledger = <<>>
  /\ error = Null
  /\ fetches = 1
  /\ loading

(* C10: every apply-credit request of processPaymentRedirect is made for
   a succeeded intent, with the intent's amount_received when the gateway
   reports one and its amount otherwise, and with the intent's currency;
   and a retrieved succeeded intent with an amount of at least 1 has its
   request made. *)
C10_RedirectCreditsReceived ==
  /\ \A k \in 1..Len(calls) :
       calls[k].path = "redirect" =>
         LET pi == intents[calls[k].intent]
         IN /\ pi.status = "succeeded"
            /\ calls[k].body.amount.type = "number"
            /\ calls[k].body.amount.den = 1
            /\ IF pi.received # {}
                 THEN pi.received = {calls[k].body.amount.num}
                 ELSE pi.amount = calls[k].body.amount.num
            /\ calls[k].body.currency = Str(pi.currency)
  /\ \A pi \in rIntent :
       (/\ pi.status = "succeeded"
        /\ \/ \E a \in pi.received : a >= 1
           \/ (pi.received = {} /\ pi.amount >= 1)) =>
         \E k \in 1..Len(calls) :
           /\ calls[k].path = "redirect"
           /\ intents[calls[k].intent] = pi

C10_Witness ==
  \E k \in 1..Len(calls) :
    /\ calls[k].path = "redirect"
    /\ intents[calls[k].intent].amount = 200
    /\ intents[calls[k].intent].received = {199}
    /\ calls[k].body.amount = Num(199)
    /\ calls[k].resp.status = 200
    /\ Balance(ledger, CusA) = 0 - 199

(* the redirect handler of the page, in flight in this step, has run to its
   end in the next one: without the processor SDK, after it retrieved an
   intent, or after the apply-credit service answered *)
RedirectHandlerEnds ==
  /\ where = "page"
  /\ where' = "page"
  /\ loads' = loads
  /\ rpc' = "idle"
  /\ \/ rpc = "loadStripe"
     \/ rpc = "retrieve" /\ rIntent' # {}
     \/ rpc = "apply" /\ rResp # NetErr

(* C11: whichever way processPaymentRedirect ends (credit applied, silent
   abort, apply-credit failed, no processor SDK), the step that ends it
   calls fetchCustomer, so that the customer is fetched again and shown. *)
C11_FetchAfterRedirect ==
  [][ RedirectHandlerEnds => (fetches' = fetches + 1 /\ loading' /\ error' = Null) ]_vars

(* C12: a click on Cancel while an intent is held clears the held secret
   and the amount field, leaves no handler running and calls neither the
   gateway nor a service. *)
C12_CancelDiscards ==
  [][ Cancel => /\ clientSecret' = {}
                /\ amountDollars' = <<>>
                /\ ppc' = "idle"
                /\ ~payLoading'
                /\ UNCHANGED <<serverVars, fetches>> ]_vars

(* C13: confirmPayment is called only by the step in which
   elements.submit() has resolved without an error, and that step starts
   nothing else: no service request, no gateway call, no customer fetch;
   the one thing that can follow a pending submit is the confirmation or
   the end of the handler. *)
C13_SubmitThenConfirm ==
  [][ /\ (ppc # "confirm" /\ ppc' = "confirm") =>
           /\ ppc = "submit"
           /\ hSecret' = hSecret
           /\ UNCHANGED <<serverVars, apiVars, fetches, rpc>>
      /\ (ppc = "submit" /\ ppc' # "submit") => ppc' \in {"confirm", "idle"}
    ]_vars

C13_Witness ==
  /\ ppc = "confirm"
  /\ hLive
  /\ payLoading
  /\ hSecret = {1}
  /\ calls = <<>>
  /\ intents[1].status = "requires_payment_method"

(* handleConfirmPayment, started in the mounted portal and waiting at the
   await named by at, returns in this step *)
AttemptEndsAt(at) ==
  /\ ppc = at
  /\ hLive
  /\ ppc' = "idle"
  /\ where' = "page"
  /\ loads' = loads

(* C14: when elements.submit() reports an error the handler ends there:
   confirmPayment is not called and apply-credit is not requested, the
   message of the error (or the fallback) is shown, the secret and the
   amount are kept, the loading flag is cleared; and a later attempt starts
   only from the idle form with its Pay button enabled. *)
C14_SubmitValidationFails ==
  [][ /\ AttemptEndsAt("submit") =>
           /\ payError' \in {MsgIncomplete, MsgValidationFailed}
           /\ ~payLoading'
           /\ clientSecret' = hSecret
           /\ clientSecret' # {}
           /\ amountDollars' = amountDollars
           /\ UNCHANGED <<serverVars, apiVars, fetches>>
      /\ (ppc # "submit" /\ ppc' = "submit") =>
           (ppc = "idle" /\ ~payLoading /\ PortalMounted)
    ]_vars

C14_Witness ==
  /\ PortalMounted
  /\ ppc = "idle"
  /\ payError = MsgIncomplete
  /\ ~payLoading
  /\ clientSecret = {1}
  /\ calls = <<>>
  /\ intents[1].status = "requires_payment_method"

(* C15: when confirmPayment ends with an error (a decline reported by the
   gateway, or a rejection), apply-credit is not requested, the message is
   shown, the secret, the amount and the mounted payment element are kept
   and the loading flag is cleared, so the Pay button is enabled again. *)
C15_DeclineReturnsToForm ==
  [][ AttemptEndsAt("confirm") =>
        /\ payError' \in {MsgDeclined, MsgPaymentFailed, MsgNetwork}
        /\ ~payLoading'
        /\ clientSecret' = hSecret
        /\ clientSecret' # {}
        /\ amountDollars' = amountDollars
        /\ elementsRef' = elementsRef
        /\ elementsRef' # {}
        /\ PortalMounted'
        /\ UNCHANGED <<ledger, calls, apiVars, fetches>>
    ]_vars

C15_Witness ==
  /\ PortalMounted
  /\ ppc = "idle"
  /\ payError = MsgDeclined
  /\ ~payLoading
  /\ clientSecret = {1}
  /\ elementsRef = {1}
  /\ amountDollars = <<"2">>
  /\ calls = <<>>
  /\ intents[1].status = "requires_payment_method"

(* the amount fields that hold no number or less than half a dollar *)
TooSmallInputs == {<<>>, <<"0", ".", "3", "0">>}

(* the minor units the other amount fields stand for *)
MinorUnits(s) ==
  CASE s = <<"0", ".", "5", "0">> -> 50
    [] s = <<"2">> -> 200

(* C16: with an amount field that holds no number or less than 0.50, a
   click on "Continue to payment" sends nothing to create-payment-intent,
   creates no intent, stores no secret, starts no handler and shows "Enter
   at least $0.50"; with 0.50 the request is made with amount 50 (and with
   2, with amount 200), for the customer of the page.  So no intent of
   less than 50 minor units ever exists. *)
C16_MinimumAmount ==
  /\ [](\A i \in 1..Len(intents) : intents[i].amount >= 50)
  /\ [][ HandleCreatePaymentIntent =>
           IF amountDollars \in TooSmallInputs
             THEN /\ payError' = "Enter at least $0.50"
                  /\ ppc' = "idle"
                  /\ ~payLoading'
                  /\ clientSecret' = {}
                  /\ hSecret' = {}
                  /\ UNCHANGED <<serverVars, apiVars, fetches>>
             ELSE /\ ppc' = "creating"
                  /\ payLoading'
                  /\ payError' = Null
                  /\ hAmountCents' = [finite |-> TRUE, v |-> MinorUnits(amountDollars)]
                  /\ Len(intents') > Len(intents) =>
                       /\ intents'[Len(intents')].amount = MinorUnits(amountDollars)
                       /\ intents'[Len(intents')].customer = url.slug
                  /\ hSecret' # {} => hSecret' = {Len(intents')}
       ]_vars

C16_Witness ==
  /\ PortalMounted
  /\ amountDollars = <<"0", ".", "3", "0">>
  /\ payError = MsgMinAmount
  /\ ppc = "idle"
  /\ ~payLoading
  /\ clientSecret = {}
  /\ intents = <<>>

(* a request with a customer id of the customer shape, an integer amount
   in [50, 99999999] and a currency string of three characters *)
ValidIntentRequest(b) ==
  /\ b # InvalidJson
  /\ b.customerId.type = "string"
  /\ Len(b.customerId.s) >= 4
  /\ SubSeq(b.customerId.s, 1, 4) = <<"c", "u", "s", "_">>
  /\ ~AmountOutside(b.amount, 50, 99999999)
  /\ b.currency.type = "string"
  /\ Len(b.currency.s) = 3

(* C17: to a valid create-payment-intent request the service answers 500
   with "Failed to create payment intent" and without a secret when the
   gateway call fails or yields an intent without a secret; otherwise it
   answers 200 with the secret of the one intent it has just created, and
   that intent has the requested customer, amount and currency. *)
C17_CreateIntentOutcome ==
  [][ (apiCount' = apiCount + 1 /\ apiReq'.endpoint = "create-payment-intent"
         /\ ValidIntentRequest(apiReq'.body))
        => LET b == apiReq'.body
               n == Len(intents')
           IN IF apiReq'.gwOk
                THEN /\ apiResp'.status = 200
                     /\ apiResp'.error = Null
                     /\ n = Len(intents) + 1
                     /\ apiResp'.clientSecret = {n}
                     /\ intents'[n].customer = b.customerId.s
                     /\ intents'[n].amount * b.amount.den = b.amount.num
                     /\ ToLowerCase(intents'[n].currency) = ToLowerCase(b.currency.s)
                     /\ SubSeq(intents', 1, n - 1) = intents
                ELSE /\ apiResp'.status = 500
                     /\ apiResp'.error = "Failed to create payment intent"
                     /\ apiResp'.clientSecret = {}
                     /\ ledger' = ledger
     ]_vars

C17_Witness ==
  /\ apiReq.endpoint = "create-payment-intent"
  /\ ValidIntentRequest(apiReq.body)
  /\ apiReq.body.amount = Num(50)
  /\ ~apiReq.gwOk
  /\ apiResp.status = 500
  /\ apiResp.error = MsgCreateFailed
  /\ apiResp.clientSecret = {}
  /\ Len(intents) = 1

(* one of the three fields of an apply-credit request is missing or
   malformed: no customer id of the customer shape, no integer amount in
   [1, 99999999], or no currency string of three characters *)
MalformedCreditRequest(b) ==
  \/ b.customerId.type # "string"
  \/ Len(b.customerId.s) < 4
  \/ SubSeq(b.customerId.s, 1, 4) # <<"c", "u", "s", "_">>
  \/ AmountOutside(b.amount, 1, 99999999)
  \/ b.currency.type # "string"
  \/ Len(b.currency.s) # 3

(* C18: to an apply-credit request in which the customer id, the amount or
   the currency is missing or malformed the service answers 400, asks the
   gateway for no balance transaction and leaves the ledger as it was. *)
C18_ValidatesAllThree ==
  [][ (apiCount' = apiCount + 1 /\ apiReq'.endpoint = "apply-credit"
         /\ apiReq'.body # InvalidJson /\ MalformedCreditRequest(apiReq'.body))
        => /\ apiResp'.status = 400
           /\ apiResp'.issued = <<>>
           /\ ledger' = ledger
     ]_vars

(* a handler started in the mounted portal is between two of its steps *)
OperationInFlight == hLive /\ ppc # "idle"

(* C19: while a handler of the mounted portal is in flight the loading
   flag is set, so Continue, Pay and Cancel are disabled: no second
   create-payment-intent request is made, the one apply-credit request of
   the portal is the one of the running handler, and from the start of a
   confirmation to its end the held secret is the one being confirmed. *)
C19_OneOperationInFlight ==
  /\ [](OperationInFlight => (payLoading /\ PortalMounted))
  /\ [](OperationInFlight =>
          IF ppc = "creating" THEN clientSecret = {}
          ELSE clientSecret # {} /\ clientSecret = hSecret)
  /\ [][ OperationInFlight =>
           /\ Len(intents') = Len(intents)
           /\ ppc' \notin {"idle", ppc} =>
                (<<ppc, ppc'>> \in {<<"submit", "confirm">>, <<"confirm", "apply">>}
                   /\ hSecret' = hSecret)
           /\ Len(calls') # Len(calls) =>
                \/ ppc = "confirm" /\ ppc' = "apply"
                \/ rpc = "retrieve" /\ rpc' = "apply"
       ]_vars

C19_Witness ==
  /\ OperationInFlight
  /\ ppc = "apply"
  /\ payLoading
  /\ clientSecret = {1}
  /\ hSecret = {1}
  /\ Len(calls) = 1
  /\ calls[1].path = "sync"

(* C20: every apply-credit request of processPaymentRedirect that the
   service answers with success names the customer of the payment intent
   the secret of the return URL identifies, whatever customer reference
   the path of that URL holds. *)
C20_CreditGoesToIntentCustomer ==
  \A k \in Served :
    (calls[k].path = "redirect" /\ IsOk(calls[k].resp)) =>
      calls[k].body.customerId = Str(intents[calls[k].intent].customer)

(* C21: when every pending asynchronous call settles, a loading flag that
   is set is cleared again: payLoading of the portal after
   handleCreatePaymentIntent and handleConfirmPayment, loading of the page
   after fetchCustomer and after the redirect handler, on the success and
   on every error path (the page is gone while the browser is at the
   authentication page).  A flag is set only while a call of its handler
   is pending. *)
C21_LoadingClears ==
  /\ [](payLoading => (hLive /\ ppc # "idle"))
  /\ []((where = "page" /\ loading) => (fetches > 0 \/ rpc # "idle"))
  /\ payLoading ~> ~payLoading
  /\ (where = "page" /\ loading) ~> (~loading \/ where = "external")

C21_Witness ==
  /\ where = "page"
  /\ ~loading
  /\ error = MsgRedirectApply
  /\ customer = {}
  /\ rpc = "idle"
  /\ fetches = 0
  /\ Len(calls) = 1
  /\ calls[1].path = "redirect"
  /\ calls[1].resp.status = 500
====
